---- MODULE Spec2Model ----
(***************************************************************************)
(* The appointment picker of the front desk (CalendarPickerModal.tsx):     *)
(* interval overlap, per-provider conflict detection, the nearest-slot     *)
(* search and the creation of an appointment against a fetched snapshot    *)
(* of the day's appointments.                                              *)
(*                                                                         *)
(* Time: a Date is an integer number of minutes since local midnight of    *)
(* day 1.  A timestamp string (starts_at, ends_at of a row or of a draft)  *)
(* is the pair <<"string", t>>; a value of type string | Date handed to    *)
(* overlaps is such a pair or <<"Date", t>>.                               *)
(***************************************************************************)
EXTENDS Integers, Sequences, FiniteSets, Bags, TLC

\* ------------------------------------------------------------ bounds
\* Slots of the operating window explored by the modal specification.
MaxSlots == 2
\* Rows the appointment table takes per operator at work.
MaxAppointments == 1
\* Appointments of a snapshot handed to the pure functions.
MaxDayAppointments == 2
\* Calendar days that can be picked (day 1 is today).
MaxDate == 1

\* ------------------------------------------------------------ constants
DayMinutes == 1440
DefaultDurationMinutes == 30
\* The operating-hours template: opening time and slot granularity.
OpenMinute == 540
SlotMinutes == 30

Undefined == "<undefined>"
All == "all"
ProviderIds == {"P1", "P2"}
RoomIds == {"R1"}
PatientIds == {"pat1"}
\* The front-desk operators, each with a picker modal of their own, and the
\* one whose modal the single-modal specification drives.
Operators == {"op1", "op2"}
FrontDesk == {"op1"}

\* JavaScript truthiness of a string-or-undefined value: !v
Falsy(v) == v = Undefined \/ v = ""

\* ------------------------------------------------------------ date-fns
startOfDay(d) == d - (d % DayMinutes)
endOfDay(d) == startOfDay(d) + DayMinutes - 1
addMinutes(d, n) == d + n
setHours(d, h) == startOfDay(d) + h * 60 + (d % 60)
setMinutes(d, m) == d - (d % 60) + m
\* format(d, 'HH:mm'): the four digits of the zero-padded hour and minute
\* of the local time; the empty string is <<>>.
formatHHmm(d) ==
    LET h == (d % DayMinutes) \div 60
        m == d % 60
    IN  <<h \div 10, h % 10, m \div 10, m % 10>>
\* selectedTime.split(':').map(Number): <<hours, minutes>>
splitTime(timeStr) == <<timeStr[1] * 10 + timeStr[2], timeStr[3] * 10 + timeStr[4]>>
toISOString(d) == <<"string", d>>
NewDate(s) == s[2]

\* ------------------------------------------------------------ overlaps
overlaps_touching(aStart, aEnd, bStart, bEnd) ==
    LET as == IF aStart[1] = "string" THEN NewDate(aStart) ELSE aStart[2]
        ae == IF aEnd[1] = "string" THEN NewDate(aEnd) ELSE aEnd[2]
    IN  as <= bEnd /\ ae >= bStart

overlaps_startInclusive(aStart, aEnd, bStart, bEnd) ==
    LET as == IF aStart[1] = "string" THEN NewDate(aStart) ELSE aStart[2]
        ae == IF aEnd[1] = "string" THEN NewDate(aEnd) ELSE aEnd[2]
    IN  as <= bEnd /\ ae > bStart

overlaps(aStart, aEnd, bStart, bEnd) ==
    LET as == IF aStart[1] = "string" THEN NewDate(aStart) ELSE aStart[2]
        ae == IF aEnd[1] = "string" THEN NewDate(aEnd) ELSE aEnd[2]
    IN  as < bEnd /\ ae > bStart

\* ------------------------------------------------------------ calendar events
\* A timestamp column that holds no value.
NullTimestamp == <<"null", 0>>
EventMinDurationMinutes == 30

\* "Ensure end > start": if (end <= start) end = start + minDurationMinutes,
\* which the calendar applies with 30 minutes.
normalize_strict(start, end, minDurationMinutes) ==
    IF end < start
    THEN [start |-> start, end |-> start + minDurationMinutes]
    ELSE [start |-> start, end |-> end]

normalize(start, end, minDurationMinutes) ==
    IF end <= start
    THEN [start |-> start, end |-> start + minDurationMinutes]
    ELSE [start |-> start, end |-> end]

\* The start and end of the calendar event an appointment becomes; `now` is
\* what new Date() returns.
eventInterval(appointment, now) ==
    LET start == IF appointment.starts_at # NullTimestamp
                 THEN NewDate(appointment.starts_at) ELSE now
        end == IF appointment.ends_at # NullTimestamp
               THEN NewDate(appointment.ends_at)
               ELSE start + EventMinDurationMinutes
    IN  normalize(start, end, EventMinDurationMinutes)

\* ------------------------------------------------------------ conflicts
isSlotConflictingForProvider_anyProvider(slot, providerId, dayAppointments) ==
    IF Falsy(providerId) THEN FALSE
    ELSE \E appt \in dayAppointments :
            overlaps(appt.starts_at, appt.ends_at, slot.start, slot.end)

isSlotConflictingForProvider(slot, providerId, dayAppointments) ==
    IF Falsy(providerId) THEN FALSE
    ELSE \E appt \in dayAppointments :
            /\ appt.provider_id = providerId
            /\ overlaps(appt.starts_at, appt.ends_at, slot.start, slot.end)

isSlotTakenByAllProviders_some(slot, providers, dayAppointments) ==
    IF Len(providers) = 0 THEN FALSE
    ELSE \E i \in 1..Len(providers) :
            \E appt \in dayAppointments :
                /\ appt.provider_id = providers[i].id
                /\ overlaps(appt.starts_at, appt.ends_at, slot.start, slot.end)

isSlotTakenByAllProviders_emptyIsTaken(slot, providers, dayAppointments) ==
    \A i \in 1..Len(providers) :
        \E appt \in dayAppointments :
            /\ appt.provider_id = providers[i].id
            /\ overlaps(appt.starts_at, appt.ends_at, slot.start, slot.end)

isSlotTakenByAllProviders(slot, providers, dayAppointments) ==
    IF Len(providers) = 0 THEN FALSE
    ELSE \A i \in 1..Len(providers) :
            \E appt \in dayAppointments :
                /\ appt.provider_id = providers[i].id
                /\ overlaps(appt.starts_at, appt.ends_at, slot.start, slot.end)

\* ------------------------------------------------------------ slots
\* The slots of the operating window [open, close) of the day of `date`,
\* stepped by granularityMinutes, in ascending order.
generateSlots_inclusiveClose(date, granularityMinutes, open, close) ==
    LET n == (close - open) \div granularityMinutes
    IN  [i \in 1..(n + 1) |->
            [start |-> startOfDay(date) + open + (i - 1) * granularityMinutes,
             end |-> startOfDay(date) + open + i * granularityMinutes]]

generateSlots(date, granularityMinutes, open, close) ==
    LET n == (close - open) \div granularityMinutes
    IN  [i \in 1..n |->
            [start |-> startOfDay(date) + open + (i - 1) * granularityMinutes,
             end |-> startOfDay(date) + open + i * granularityMinutes]]

CloseMinute == OpenMinute + MaxSlots * SlotMinutes

getAvailableSlots(date, roomId) ==
    generateSlots(date, SlotMinutes, OpenMinute, CloseMinute)

\* ------------------------------------------------------------ nearest slot
NotFound == [found |-> FALSE]

\* providers.find(p => !dayAppointments.some(...)): the index of the first
\* provider of the list that is free at the slot, 0 when there is none.
freeProviderIndex(slot, providers, dayAppointments) ==
    LET free == {i \in 1..Len(providers) :
                    ~ \E appt \in dayAppointments :
                        /\ appt.provider_id = providers[i].id
                        /\ overlaps(appt.starts_at, appt.ends_at, slot.start, slot.end)}
    IN  IF free = {} THEN 0 ELSE CHOOSE i \in free : \A j \in free : i <= j

findNearestAvailable_providerFirst(slots, selectedProvider, providers, dayAppointments) ==
    IF Len(slots) = 0 THEN NotFound
    ELSE IF Falsy(selectedProvider) \/ selectedProvider = All
    THEN LET pairs == {<<i, k>> \in (1..Len(providers)) \X (1..Len(slots)) :
                          freeProviderIndex(slots[k], <<providers[i]>>, dayAppointments) # 0}
         IN  IF pairs = {} THEN NotFound
             ELSE LET best == CHOOSE p \in pairs : \A q \in pairs :
                                  p[1] < q[1] \/ (p[1] = q[1] /\ p[2] <= q[2])
                  IN  [found |-> TRUE, slot |-> slots[best[2]], provider |-> providers[best[1]].id]
    ELSE LET hits == {k \in 1..Len(slots) :
                         ~ isSlotConflictingForProvider(slots[k], selectedProvider, dayAppointments)}
         IN  IF hits = {} THEN NotFound
             ELSE [found |-> TRUE, slot |-> slots[CHOOSE k \in hits : \A j \in hits : k <= j],
                   provider |-> selectedProvider]

scanSlots_firstSlotOnly(slots, k, selectedProvider, providers, dayAppointments) ==
    IF k > Len(slots) THEN NotFound
    ELSE IF Falsy(selectedProvider) \/ selectedProvider = All
    THEN LET freeProvider == freeProviderIndex(slots[k], providers, dayAppointments)
         IN  IF freeProvider # 0
             THEN [found |-> TRUE, slot |-> slots[k], provider |-> providers[freeProvider].id]
             ELSE NotFound
    ELSE IF ~ isSlotConflictingForProvider(slots[k], selectedProvider, dayAppointments)
    THEN [found |-> TRUE, slot |-> slots[k], provider |-> selectedProvider]
    ELSE NotFound

RECURSIVE scanSlots(_, _, _, _, _)
\* for (const slot of slots) { ... }: the loop from position k on.
scanSlots(slots, k, selectedProvider, providers, dayAppointments) ==
    IF k > Len(slots) THEN NotFound
    ELSE IF Falsy(selectedProvider) \/ selectedProvider = All
    THEN LET freeProvider == freeProviderIndex(slots[k], providers, dayAppointments)
         IN  IF freeProvider # 0
             THEN [found |-> TRUE, slot |-> slots[k], provider |-> providers[freeProvider].id]
             ELSE scanSlots(slots, k + 1, selectedProvider, providers, dayAppointments)
    ELSE IF ~ isSlotConflictingForProvider(slots[k], selectedProvider, dayAppointments)
    THEN [found |-> TRUE, slot |-> slots[k], provider |-> selectedProvider]
    ELSE scanSlots(slots, k + 1, selectedProvider, providers, dayAppointments)

findNearestAvailable_ignoresSelection(slots, selectedProvider, providers, dayAppointments) ==
    IF Len(slots) = 0 THEN NotFound
    ELSE scanSlots(slots, 1, All, providers, dayAppointments)

findNearestAvailable(slots, selectedProvider, providers, dayAppointments) ==
    IF Len(slots) = 0 THEN NotFound
    ELSE scanSlots(slots, 1, selectedProvider, providers, dayAppointments)

\* ============================================================ the modal
VARIABLES
    table,             \* the appointments table: a bag of rows, each with the
                       \* columns the picker reads (provider_id, starts_at, ends_at)
    providers,         \* useProviders().data
    patient,           \* [operator -> the modal's patient prop]
    selectedDate,      \* [operator -> Date or NoDate]
    selectedTime,      \* [operator -> 'HH:mm' string]
    selectedProvider,  \* [operator -> 'all' or a provider id]
    selectedRoom,      \* [operator -> '' or a room id]
    dayAppointments,   \* [operator -> the fetched snapshot of the day's rows]
    mutation,          \* [operator -> createAppointmentMutation]
    toast,             \* the toast shown by the last step, if any
    notified,          \* the onAppointmentCreated calls made by the last step
    call,              \* pure functions: the last call's arguments
    ret                \* pure functions: the last call's result

modalVars == <<table, providers, patient, selectedDate, selectedTime,
               selectedProvider, selectedRoom, dayAppointments, mutation,
               toast, notified>>
vars == <<table, providers, patient, selectedDate, selectedTime,
          selectedProvider, selectedRoom, dayAppointments, mutation,
          toast, notified, call, ret>>

NoDate == -1
\* new Date(): some moment of the current day, the first selectable one.
Today == DayMinutes + 615
Dates == {startOfDay(Today) + (d - 1) * DayMinutes : d \in 1..MaxDate}
NoPatient == [id |-> Undefined]
NoToast == [op |-> "", title |-> ""]
Idle == [isPending |-> FALSE]
NoCall == [fn |-> ""]
NoRet == [done |-> FALSE]

ProviderLists == {<<>>, <<[id |-> "P1"], [id |-> "P2"]>>}

ToastOf(o, title) == [op |-> o, title |-> title]

\* useCalendarAppointments(start, end, {}): the rows of the table that start
\* inside the window.
fetchAppointments(rangeStart, rangeEnd) ==
    {row \in BagToSet(table) :
        /\ NewDate(row.starts_at) >= rangeStart
        /\ NewDate(row.starts_at) <= rangeEnd}

\* The day the appointments query of an operator's modal is keyed on.
queryDay(date) == IF date # NoDate THEN startOfDay(date) ELSE startOfDay(Today)

slotsOf(o) ==
    IF selectedDate[o] # NoDate
    THEN getAvailableSlots(selectedDate[o], selectedRoom[o])
    ELSE <<>>

\* The disabled flag of a slot button.
slotDisabled(slot, provider, providerList, appointments) ==
    IF Falsy(provider) \/ provider = All
    THEN isSlotTakenByAllProviders(slot, providerList, appointments)
    ELSE isSlotConflictingForProvider(slot, provider, appointments)

\* The disabled flag of the Create Appointment button.
createDisabled_ignorePending(o) ==
    selectedDate[o] = NoDate \/ selectedTime[o] = <<>>

createDisabled(o) ==
    selectedDate[o] = NoDate \/ selectedTime[o] = <<>> \/ mutation[o].isPending

Init ==
    /\ table = EmptyBag
    /\ providers \in ProviderLists
    /\ patient \in [Operators -> {NoPatient} \cup {[id |-> p] : p \in PatientIds}]
    /\ \A o \in Operators \ FrontDesk : patient[o] = NoPatient
    /\ selectedDate = [o \in Operators |-> NoDate]
    /\ selectedTime = [o \in Operators |-> <<>>]
    /\ selectedProvider = [o \in Operators |-> All]
    /\ selectedRoom = [o \in Operators |-> ""]
    /\ dayAppointments = [o \in Operators |-> {}]
    /\ mutation = [o \in Operators |-> Idle]
    /\ toast = NoToast
    /\ notified = <<>>
    /\ call = NoCall
    /\ ret = NoRet

\* Calendar onSelect: picks a day, or clears the selection when the selected
\* day is clicked again.  A new query window starts with no data.
SelectDate(o, d) ==
    /\ d # selectedDate[o]
    /\ d = NoDate => selectedDate[o] # NoDate
    /\ selectedDate' = [selectedDate EXCEPT ![o] = d]
    /\ dayAppointments' =
          IF queryDay(d) = queryDay(selectedDate[o]) THEN dayAppointments
          ELSE [dayAppointments EXCEPT ![o] = {}]
    /\ toast' = NoToast
    /\ notified' = <<>>
    /\ UNCHANGED <<table, providers, patient, selectedTime, selectedProvider,
                   selectedRoom, mutation, call, ret>>

\* The appointments query of the operator's modal resolves.
FetchAppointments(o) ==
    /\ dayAppointments' = [dayAppointments EXCEPT ![o] =
          fetchAppointments(queryDay(selectedDate[o]), endOfDay(queryDay(selectedDate[o])))]
    /\ toast' = NoToast
    /\ notified' = <<>>
    /\ UNCHANGED <<table, providers, patient, selectedDate, selectedTime,
                   selectedProvider, selectedRoom, mutation, call, ret>>

\* A slot button: onClick={() => !disabled && setSelectedTime(timeStr)}
SelectTime(o, k) ==
    /\ k \in 1..Len(slotsOf(o))
    /\ ~ slotDisabled(slotsOf(o)[k], selectedProvider[o], providers, dayAppointments[o])
    /\ selectedTime' = [selectedTime EXCEPT ![o] = formatHHmm(slotsOf(o)[k].start)]
    /\ toast' = NoToast
    /\ notified' = <<>>
    /\ UNCHANGED <<table, providers, patient, selectedDate, selectedProvider,
                   selectedRoom, dayAppointments, mutation, call, ret>>

\* The provider Select: 'all' or one of the providers.
SelectProvider(o, v) ==
    /\ v = All \/ \E i \in 1..Len(providers) : providers[i].id = v
    /\ selectedProvider' = [selectedProvider EXCEPT ![o] = v]
    /\ toast' = NoToast
    /\ notified' = <<>>
    /\ UNCHANGED <<table, providers, patient, selectedDate, selectedTime,
                   selectedRoom, dayAppointments, mutation, call, ret>>

\* The room Select.
SelectRoom(o, r) ==
    /\ r \in RoomIds
    /\ selectedRoom' = [selectedRoom EXCEPT ![o] = r]
    /\ toast' = NoToast
    /\ notified' = <<>>
    /\ UNCHANGED <<table, providers, patient, selectedDate, selectedTime,
                   selectedProvider, dayAppointments, mutation, call, ret>>

\* ------------------------------------------------------------ create
\* startDateTime of handleCreateAppointment.
draftStart(date, timeStr) ==
    LET hm == splitTime(timeStr)
    IN  setMinutes(setHours(date, hm[1]), hm[2])

buildDraft_zeroDuration(pat, date, timeStr, provider, room) ==
    LET startDateTime == draftStart(date, timeStr)
        endDateTime == addMinutes(startDateTime, 0)
    IN  [patient_id |-> pat.id,
         provider_id |-> IF ~ Falsy(provider) /\ provider # All THEN provider ELSE Undefined,
         room_id |-> IF ~ Falsy(room) THEN room ELSE Undefined,
         starts_at |-> toISOString(startDateTime),
         ends_at |-> toISOString(endDateTime)]

buildDraft_sendsAll(pat, date, timeStr, provider, room) ==
    LET startDateTime == draftStart(date, timeStr)
        endDateTime == addMinutes(startDateTime, DefaultDurationMinutes)
    IN  [patient_id |-> pat.id,
         provider_id |-> IF ~ Falsy(provider) THEN provider ELSE Undefined,
         room_id |-> IF ~ Falsy(room) THEN room ELSE Undefined,
         starts_at |-> toISOString(startDateTime),
         ends_at |-> toISOString(endDateTime)]

\* The argument of createAppointmentMutation.mutateAsync.
buildDraft(pat, date, timeStr, provider, room) ==
    LET startDateTime == draftStart(date, timeStr)
        endDateTime == addMinutes(startDateTime, DefaultDurationMinutes)
    IN  [patient_id |-> pat.id,
         provider_id |-> IF ~ Falsy(provider) /\ provider # All THEN provider ELSE Undefined,
         room_id |-> IF ~ Falsy(room) THEN room ELSE Undefined,
         starts_at |-> toISOString(startDateTime),
         ends_at |-> toISOString(endDateTime)]

\* What handleCreateAppointment does before it awaits the mutation:
\* "missing", "conflict" or "create".
submitOutcome_noPatientCheck(pat, date, timeStr, provider, appointments) ==
    IF date = NoDate \/ timeStr = <<>> THEN "missing"
    ELSE LET startDateTime == draftStart(date, timeStr)
             endDateTime == addMinutes(startDateTime, DefaultDurationMinutes)
         IN  IF /\ ~ Falsy(provider)
                /\ isSlotConflictingForProvider(
                      [start |-> startDateTime, end |-> endDateTime], provider, appointments)
             THEN "conflict"
             ELSE "create"

submitOutcome_noConflictCheck(pat, date, timeStr, provider, appointments) ==
    IF pat = NoPatient \/ date = NoDate \/ timeStr = <<>> THEN "missing" ELSE "create"

submitOutcome(pat, date, timeStr, provider, appointments) ==
    IF pat = NoPatient \/ date = NoDate \/ timeStr = <<>> THEN "missing"
    ELSE LET startDateTime == draftStart(date, timeStr)
             endDateTime == addMinutes(startDateTime, DefaultDurationMinutes)
         IN  IF /\ ~ Falsy(provider)
                /\ isSlotConflictingForProvider(
                      [start |-> startDateTime, end |-> endDateTime], provider, appointments)
             THEN "conflict"
             ELSE "create"

handleCreateAppointment(o) ==
    LET outcome == submitOutcome(patient[o], selectedDate[o], selectedTime[o],
                                 selectedProvider[o], dayAppointments[o])
    IN  /\ toast' = CASE outcome = "missing" -> ToastOf(o, "Missing information")
                      [] outcome = "conflict" -> ToastOf(o, "Provider conflict")
                      [] OTHER -> NoToast
        /\ mutation' =
              IF outcome = "create"
              THEN [mutation EXCEPT ![o] =
                      [isPending |-> TRUE,
                       variables |-> buildDraft(patient[o], selectedDate[o], selectedTime[o],
                                                selectedProvider[o], selectedRoom[o])]]
              ELSE mutation
        /\ notified' = <<>>
        /\ UNCHANGED <<table, providers, patient, selectedDate, selectedTime,
                       selectedProvider, selectedRoom, dayAppointments, call, ret>>

\* The Create Appointment button.
ClickCreate(o) ==
    /\ ~ createDisabled(o)
    /\ handleCreateAppointment(o)

\* The row a draft becomes, with the columns the picker reads back.
insertedRow(draft) ==
    [provider_id |-> draft.provider_id,
     starts_at |-> draft.starts_at,
     ends_at |-> draft.ends_at]

\* The create call succeeds: the row is inserted, and handleCreateAppointment
\* resumes after the await.  (A full table makes every further call fail.)
MutationSuccess(o) ==
    /\ mutation[o].isPending
    /\ BagCardinality(table) < MaxAppointments
    /\ table' = table (+) SetToBag({insertedRow(mutation[o].variables)})
    /\ mutation' = [mutation EXCEPT ![o] = Idle]
    /\ toast' = ToastOf(o, "Appointment created")
    /\ notified' = <<o>>
    /\ UNCHANGED <<providers, patient, selectedDate, selectedTime, selectedProvider,
                   selectedRoom, dayAppointments, call, ret>>

\* The create call succeeds and the modal's appointments query is refetched
\* before anything else happens: the freshest snapshot an operator can hold.
MutationSuccessRefetched(o) ==
    /\ mutation[o].isPending
    /\ BagCardinality(table) < MaxAppointments * Cardinality(Operators)
    /\ table' = table (+) SetToBag({insertedRow(mutation[o].variables)})
    /\ dayAppointments' = [dayAppointments EXCEPT ![o] =
          {row \in BagToSet(table (+) SetToBag({insertedRow(mutation[o].variables)})) :
              /\ NewDate(row.starts_at) >= queryDay(selectedDate[o])
              /\ NewDate(row.starts_at) <= endOfDay(queryDay(selectedDate[o]))}]
    /\ mutation' = [mutation EXCEPT ![o] = Idle]
    /\ toast' = ToastOf(o, "Appointment created")
    /\ notified' = <<o>>
    /\ UNCHANGED <<providers, patient, selectedDate, selectedTime, selectedProvider,
                   selectedRoom, call, ret>>

MutationError_notifies(o) ==
    /\ mutation[o].isPending
    /\ mutation' = [mutation EXCEPT ![o] = Idle]
    /\ toast' = ToastOf(o, "Error")
    /\ notified' = <<o>>
    /\ UNCHANGED <<table, providers, patient, selectedDate, selectedTime,
                   selectedProvider, selectedRoom, dayAppointments, call, ret>>

\* The create call rejects: the catch block of handleCreateAppointment.
MutationError(o) ==
    /\ mutation[o].isPending
    /\ mutation' = [mutation EXCEPT ![o] = Idle]
    /\ toast' = ToastOf(o, "Error")
    /\ notified' = <<>>
    /\ UNCHANGED <<table, providers, patient, selectedDate, selectedTime,
                   selectedProvider, selectedRoom, dayAppointments, call, ret>>

nearestAvailableClick_keepsProvider(timeStr, provider, slots, providerList, appointments) ==
    LET found == findNearestAvailable(slots, provider, providerList, appointments)
    IN  IF found.found
        THEN [selectedTime |-> formatHHmm(found.slot.start),
              selectedProvider |-> provider,
              toast |-> ""]
        ELSE [selectedTime |-> timeStr,
              selectedProvider |-> provider,
              toast |-> "No available slots"]

nearestAvailableClick_pinsFirstProvider(timeStr, provider, slots, providerList, appointments) ==
    LET found == findNearestAvailable(slots, provider, providerList, appointments)
    IN  IF found.found
        THEN [selectedTime |-> formatHHmm(found.slot.start),
              selectedProvider |->
                  IF (Falsy(provider) \/ provider = All) /\ Len(providerList) > 0
                  THEN providerList[1].id
                  ELSE provider,
              toast |-> ""]
        ELSE [selectedTime |-> timeStr,
              selectedProvider |-> provider,
              toast |-> "No available slots"]

\* The onClick of the Nearest Available button: the selected time, the
\* selected provider and the toast title ("" for none) it leaves.
nearestAvailableClick(timeStr, provider, slots, providerList, appointments) ==
    LET found == findNearestAvailable(slots, provider, providerList, appointments)
    IN  IF found.found
        THEN [selectedTime |-> formatHHmm(found.slot.start),
              selectedProvider |->
                  IF (Falsy(provider) \/ provider = All) /\ ~ Falsy(found.provider)
                  THEN found.provider
                  ELSE provider,
              toast |-> ""]
        ELSE [selectedTime |-> timeStr,
              selectedProvider |-> provider,
              toast |-> "No available slots"]

\* The Nearest Available button (rendered once a date is selected).
NearestAvailable(o) ==
    /\ selectedDate[o] # NoDate
    /\ LET click == nearestAvailableClick(selectedTime[o], selectedProvider[o], slotsOf(o),
                                          providers, dayAppointments[o])
       IN  /\ selectedTime' = [selectedTime EXCEPT ![o] = click.selectedTime]
           /\ selectedProvider' = [selectedProvider EXCEPT ![o] = click.selectedProvider]
           /\ toast' = IF click.toast = "" THEN NoToast ELSE ToastOf(o, click.toast)
    /\ notified' = <<>>
    /\ UNCHANGED <<table, providers, patient, selectedDate, selectedRoom,
                   dayAppointments, mutation, call, ret>>

\* One operator's modal.
Next ==
    \/ \E o \in FrontDesk, d \in Dates \cup {NoDate} : SelectDate(o, d)
    \/ \E o \in FrontDesk : FetchAppointments(o)
    \/ \E o \in FrontDesk, k \in 1..MaxSlots : SelectTime(o, k)
    \/ \E o \in FrontDesk, v \in ProviderIds \cup {All} : SelectProvider(o, v)
    \/ \E o \in FrontDesk, r \in RoomIds : SelectRoom(o, r)
    \/ \E o \in FrontDesk : NearestAvailable(o)
    \/ \E o \in FrontDesk : ClickCreate(o)
    \/ \E o \in FrontDesk : MutationSuccess(o)
    \/ \E o \in FrontDesk : MutationError(o)

Spec == Init /\ [][Next]_vars

\* handleCreateAppointment as a function: besides the button, it is run in
\* any state of the modal in which no create call is pending.
RunHandleCreateAppointment(o) ==
    /\ ~ mutation[o].isPending
    /\ handleCreateAppointment(o)

HandlerNext ==
    \/ Next
    \/ \E o \in FrontDesk : RunHandleCreateAppointment(o)

HandlerSpec == Init /\ [][HandlerNext]_vars

\* Several operators booking concurrently: each has opened the picker for a
\* patient and picked today; each modal holds its own snapshot, refetched
\* whenever its own create call succeeds.
ConcurrentInit ==
    /\ table = EmptyBag
    /\ providers = <<[id |-> "P1"], [id |-> "P2"]>>
    /\ patient = [o \in Operators |-> [id |-> "pat1"]]
    /\ selectedDate = [o \in Operators |-> startOfDay(Today)]
    /\ selectedTime = [o \in Operators |-> <<>>]
    /\ selectedProvider = [o \in Operators |-> All]
    /\ selectedRoom = [o \in Operators |-> ""]
    /\ dayAppointments = [o \in Operators |-> {}]
    /\ mutation = [o \in Operators |-> Idle]
    /\ toast = NoToast
    /\ notified = <<>>
    /\ call = NoCall
    /\ ret = NoRet

ConcurrentNext ==
    \/ \E o \in Operators : FetchAppointments(o)
    \/ \E o \in Operators, k \in 1..MaxSlots : SelectTime(o, k)
    \/ \E o \in Operators, v \in ProviderIds \cup {All} : SelectProvider(o, v)
    \/ \E o \in Operators : NearestAvailable(o)
    \/ \E o \in Operators : ClickCreate(o)
    \/ \E o \in Operators : MutationSuccessRefetched(o)
    \/ \E o \in Operators : MutationError(o)

ConcurrentSpec == ConcurrentInit /\ [][ConcurrentNext]_vars

\* ============================================================ pure functions
\* The inputs the pure functions are applied to: slot lists of two
\* granularities, provider lists in both orders, and snapshots of up to
\* MaxDayAppointments rows that start on a quarter-hour tick.
MaxTick == 4
PureTimes == {startOfDay(Today) + OpenMinute + 15 * k : k \in 0..MaxTick}
PureGranularities == {15, 30}
PureDurations == {30, 60}
PureSlotLists ==
    {generateSlots(Today, g, OpenMinute, OpenMinute + n * g) :
        g \in PureGranularities, n \in 0..MaxSlots}
PureSlots == UNION {{l[k] : k \in 1..Len(l)} : l \in PureSlotLists}
PureProviderLists ==
    {<<>>, <<[id |-> "P1"]>>, <<[id |-> "P2"]>>,
     <<[id |-> "P1"], [id |-> "P2"]>>, <<[id |-> "P2"], [id |-> "P1"]>>}
PureSelections == {All, "", "P1", "P2"}
PureRowPool ==
    {[provider_id |-> p, starts_at |-> toISOString(s), ends_at |-> toISOString(s + d)] :
        p \in ProviderIds, s \in PureTimes, d \in PureDurations}

RECURSIVE SubsetsUpTo(_, _)
SubsetsUpTo(S, n) ==
    IF n = 0 THEN {{}}
    ELSE LET smaller == SubsetsUpTo(S, n - 1)
         IN  smaller \cup {T \cup {x} : T \in smaller, x \in S}

PureSnapshots == SubsetsUpTo(PureRowPool, MaxDayAppointments)

PureInit ==
    /\ table = EmptyBag
    /\ providers = <<>>
    /\ patient = [o \in Operators |-> NoPatient]
    /\ selectedDate = [o \in Operators |-> NoDate]
    /\ selectedTime = [o \in Operators |-> <<>>]
    /\ selectedProvider = [o \in Operators |-> All]
    /\ selectedRoom = [o \in Operators |-> ""]
    /\ dayAppointments = [o \in Operators |-> {}]
    /\ mutation = [o \in Operators |-> Idle]
    /\ toast = NoToast
    /\ notified = <<>>
    /\ call = NoCall
    /\ ret = NoRet

Return(v) == [done |-> TRUE, value |-> v]

CallOverlaps ==
    /\ call = NoCall
    /\ \E aType \in {"string", "Date"}, aStart \in PureTimes, aEnd \in PureTimes,
          bStart \in PureTimes, bEnd \in PureTimes :
          /\ call' = [fn |-> "overlaps", aType |-> aType, aStart |-> aStart,
                      aEnd |-> aEnd, bStart |-> bStart, bEnd |-> bEnd]
          /\ ret' = [done |-> TRUE,
                     value |-> overlaps(<<aType, aStart>>, <<aType, aEnd>>, bStart, bEnd),
                     swapped |-> overlaps(<<"Date", bStart>>, <<"Date", bEnd>>,
                                          aStart, aEnd)]
    /\ UNCHANGED modalVars

CallIsSlotConflictingForProvider ==
    /\ call = NoCall
    /\ \E slot \in PureSlots, providerId \in PureSelections \cup {Undefined},
          appointments \in PureSnapshots :
          /\ call' = [fn |-> "isSlotConflictingForProvider", slot |-> slot,
                      providerId |-> providerId, dayAppointments |-> appointments]
          /\ ret' = Return(isSlotConflictingForProvider(slot, providerId, appointments))
    /\ UNCHANGED modalVars

CallIsSlotTakenByAllProviders ==
    /\ call = NoCall
    /\ \E slot \in PureSlots, providerList \in PureProviderLists,
          appointments \in PureSnapshots :
          /\ call' = [fn |-> "isSlotTakenByAllProviders", slot |-> slot,
                      providers |-> providerList, dayAppointments |-> appointments]
          /\ ret' = Return(isSlotTakenByAllProviders(slot, providerList, appointments))
    /\ UNCHANGED modalVars

\* findNearestAvailable, what the button's onClick makes of its result when
\* no time is selected yet, what a second click right after it makes of the
\* selections the first one left, and the disabled flag of each slot's button.
CallFindNearestAvailable ==
    /\ call = NoCall
    /\ \E slots \in PureSlotLists, provider \in PureSelections,
          providerList \in PureProviderLists, appointments \in PureSnapshots :
          /\ call' = [fn |-> "findNearestAvailable", slots |-> slots,
                      selectedProvider |-> provider, providers |-> providerList,
                      dayAppointments |-> appointments]
          /\ ret' = [done |-> TRUE,
                     value |-> findNearestAvailable(slots, provider, providerList,
                                                    appointments),
                     click |-> nearestAvailableClick(<<>>, provider, slots, providerList,
                                                     appointments),
                     again |-> LET click == nearestAvailableClick(<<>>, provider, slots,
                                                   providerList, appointments)
                               IN  nearestAvailableClick(click.selectedTime,
                                       click.selectedProvider, slots, providerList,
                                       appointments),
                     disabled |-> [k \in 1..Len(slots) |->
                                     slotDisabled(slots[k], provider, providerList,
                                                  appointments)]]
    /\ UNCHANGED modalVars

\* A slot button as rendered with a specific provider selected, and what
\* handleCreateAppointment does once that slot's time is selected, both
\* against the same snapshot.
CallSlotButtonThenCreate ==
    /\ call = NoCall
    /\ \E slots \in PureSlotLists, provider \in ProviderIds,
          appointments \in PureSnapshots :
          \E k \in 1..Len(slots) :
              /\ call' = [fn |-> "slotButtonThenCreate", slot |-> slots[k],
                          selectedProvider |-> provider, dayAppointments |-> appointments]
              /\ ret' = [done |-> TRUE,
                         disabled |-> slotDisabled(slots[k], provider,
                                          <<[id |-> "P1"], [id |-> "P2"]>>, appointments),
                         outcome |-> submitOutcome([id |-> "pat1"],
                                          startOfDay(slots[k].start),
                                          formatHHmm(slots[k].start), provider,
                                          appointments)]
    /\ UNCHANGED modalVars

PureMinDurations == {15, 30, 60}
PureTimestamps == {toISOString(t) : t \in PureTimes} \cup {NullTimestamp}

CallNormalize ==
    /\ call = NoCall
    /\ \E start \in PureTimes, end \in PureTimes, m \in PureMinDurations :
          /\ call' = [fn |-> "normalize", start |-> start, end |-> end,
                      minDurationMinutes |-> m]
          /\ ret' = Return(normalize(start, end, m))
    /\ UNCHANGED modalVars

\* One appointment of the calendar page turned into an event.
CallEventInterval ==
    /\ call = NoCall
    /\ \E starts_at \in PureTimestamps, ends_at \in PureTimestamps, now \in PureTimes :
          /\ call' = [fn |-> "eventInterval", starts_at |-> starts_at,
                      ends_at |-> ends_at, now |-> now]
          /\ ret' = Return(eventInterval([starts_at |-> starts_at, ends_at |-> ends_at],
                                         now))
    /\ UNCHANGED modalVars

\* Clinic hours 09:00-17:00 besides the short windows of the other calls.
ClinicCloseMinute == 1020
PureCloseMinutes == {OpenMinute + 15 * k : k \in 0..MaxTick} \cup {ClinicCloseMinute}

CallGenerateSlots ==
    /\ call = NoCall
    /\ \E date \in {Today, Today + DayMinutes}, g \in PureGranularities,
          close \in PureCloseMinutes :
          /\ call' = [fn |-> "generateSlots", date |-> date, granularityMinutes |-> g,
                      open |-> OpenMinute, close |-> close]
          /\ ret' = Return(generateSlots(date, g, OpenMinute, close))
    /\ UNCHANGED modalVars

PureNext ==
    \/ CallGenerateSlots
    \/ CallSlotButtonThenCreate
    \/ CallOverlaps
    \/ CallNormalize
    \/ CallEventInterval
    \/ CallIsSlotConflictingForProvider
    \/ CallIsSlotTakenByAllProviders
    \/ CallFindNearestAvailable

PureSpec == PureInit /\ [][PureNext]_vars

\* ============================================================ properties
\* Interval arithmetic written out, for the statements below.
RowOverlaps(row, s, e) == row.starts_at[2] < e /\ row.ends_at[2] > s
ProviderBusy(p, slot, appointments) ==
    \E row \in appointments : row.provider_id = p /\ RowOverlaps(row, slot.start, slot.end)
MinOf(S) == CHOOSE x \in S : \A y \in S : x <= y

\* The minute of the day an 'HH:mm' string names, and the interval drafted
\* from an operator's current selection.
MinuteOfDay(timeStr) == (timeStr[1] * 10 + timeStr[2]) * 60 + timeStr[3] * 10 + timeStr[4]
DraftedStart(o) == selectedDate[o] + MinuteOfDay(selectedTime[o])
DraftedEnd(o) == DraftedStart(o) + 30

\* A step in which operator o's create call is issued.
CreateIssued(o) == ~ mutation[o].isPending /\ mutation'[o].isPending
\* A step in which handleCreateAppointment ran for operator o up to its await.
HandlerRan(o) ==
    \/ CreateIssued(o)
    \/ toast' = ToastOf(o, "Missing information")
    \/ toast' = ToastOf(o, "Provider conflict")
Missing(o) == patient[o] = NoPatient \/ selectedDate[o] = NoDate \/ selectedTime[o] = <<>>
SelectionsUnchanged(o) ==
    /\ selectedDate'[o] = selectedDate[o]
    /\ selectedTime'[o] = selectedTime[o]
    /\ selectedProvider'[o] = selectedProvider[o]
    /\ selectedRoom'[o] = selectedRoom[o]

\* C1: no two rows of the table with the same provider_id have overlapping
\* [starts_at, ends_at) intervals, whatever the operators did, each against
\* its own snapshot.
C1_NoProviderDoubleBooking ==
    \A a \in BagToSet(table), b \in BagToSet(table) :
        /\ a.provider_id # Undefined
        /\ a.provider_id = b.provider_id
        /\ a # b \/ CopiesIn(a, table) >= 2
        => ~ (a.starts_at[2] < b.ends_at[2] /\ b.starts_at[2] < a.ends_at[2])

\* C2: a create call with a specific provider P is issued only when no row
\* of P in the snapshot held at submit time overlaps the drafted interval;
\* when one does, handleCreateAppointment reports a provider conflict and
\* issues no create call.
C2_SubmitRechecksProvider ==
    [][\A o \in Operators :
        /\ (CreateIssued(o) /\ mutation'[o].variables.provider_id # Undefined)
            => ~ \E row \in dayAppointments[o] :
                    /\ row.provider_id = mutation'[o].variables.provider_id
                    /\ RowOverlaps(row, mutation'[o].variables.starts_at[2],
                                   mutation'[o].variables.ends_at[2])
        /\ (/\ HandlerRan(o)
            /\ ~ Missing(o)
            /\ \E row \in dayAppointments[o] :
                    /\ row.provider_id = selectedProvider[o]
                    /\ RowOverlaps(row, DraftedStart(o), DraftedEnd(o)))
            => /\ toast' = ToastOf(o, "Provider conflict")
               /\ mutation' = mutation
               /\ table' = table
    ]_vars

\* C2 witness: a submit found the selected provider booked in the snapshot.
C2_Witness ==
    \E o \in Operators :
        /\ toast = ToastOf(o, "Provider conflict")
        /\ ~ mutation[o].isPending
        /\ selectedProvider[o] \in ProviderIds

\* C3: with the patient, the date or the time missing, handleCreateAppointment
\* reports a validation error, issues no create call, does not invoke
\* onAppointmentCreated and leaves the selections as they are; it reports a
\* validation error in no other case, whatever the provider and the room.
C3_MissingFieldsRejected ==
    [][\A o \in Operators :
        /\ Missing(o) => ~ CreateIssued(o)
        /\ (HandlerRan(o) /\ Missing(o))
            => /\ toast' = ToastOf(o, "Missing information")
               /\ mutation' = mutation
               /\ table' = table
               /\ notified' = <<>>
               /\ SelectionsUnchanged(o)
        /\ toast' = ToastOf(o, "Missing information") => Missing(o)
    ]_vars

\* C3 witness: a validation error for a modal with no patient whose date,
\* time, provider and room are all selected.
C3_Witness ==
    \E o \in Operators :
        /\ toast = ToastOf(o, "Missing information")
        /\ patient[o] = NoPatient
        /\ selectedDate[o] # NoDate
        /\ selectedTime[o] # <<>>
        /\ selectedProvider[o] \in ProviderIds
        /\ selectedRoom[o] \in RoomIds

\* The slots (by position) with a free pairing in any-provider mode.
FreeSlotsAny(slots, providerList, appointments) ==
    {k \in 1..Len(slots) :
        \E i \in 1..Len(providerList) :
            ~ ProviderBusy(providerList[i].id, slots[k], appointments)}
\* The slots (by position) at which provider p is free.
FreeSlotsOf(p, slots, appointments) ==
    {k \in 1..Len(slots) : ~ ProviderBusy(p, slots[k], appointments)}

\* C4: with no provider requested, findNearestAvailable returns the earliest
\* slot at which some provider of the list is free, paired with the first
\* provider in list order that is free at that slot.
C4_AnyProviderEarliestSlotFirstFit ==
    (call.fn = "findNearestAvailable" /\ call.selectedProvider \in {All, ""}) =>
        LET free == FreeSlotsAny(call.slots, call.providers, call.dayAppointments)
        IN  free # {} =>
              /\ ret.value.found
              /\ ret.value.slot = call.slots[MinOf(free)]
              /\ \A k \in free : ret.value.slot.start <= call.slots[k].start
              /\ ret.value.provider =
                    call.providers[MinOf({i \in 1..Len(call.providers) :
                        ~ ProviderBusy(call.providers[i].id, ret.value.slot,
                                       call.dayAppointments)})].id

\* C4 witness: the first provider of the list is busy at the earliest slot
\* and free at a later one; the second provider is returned at the earliest.
C4_Witness ==
    /\ call.fn = "findNearestAvailable"
    /\ call.selectedProvider = All
    /\ Len(call.providers) = 2
    /\ Len(call.slots) >= 2
    /\ ret.value.found
    /\ ret.value.slot = call.slots[1]
    /\ ret.value.provider = call.providers[2].id
    /\ ~ ProviderBusy(call.providers[1].id, call.slots[2], call.dayAppointments)

\* C5: with a specific provider P requested, findNearestAvailable returns
\* the first slot of the sequence, hence the earliest, at which P is free,
\* and the provider of the result is P.
C5_SpecificProviderFirstFreeSlot ==
    (call.fn = "findNearestAvailable" /\ call.selectedProvider \in ProviderIds) =>
        LET free == FreeSlotsOf(call.selectedProvider, call.slots, call.dayAppointments)
        IN  /\ ret.value.found => ret.value.provider = call.selectedProvider
            /\ free # {} =>
                 /\ ret.value.found
                 /\ ret.value.slot = call.slots[MinOf(free)]
                 /\ \A k \in free : ret.value.slot.start <= call.slots[k].start

\* C5 witness: P is busy at the first slot, where another provider of the
\* list is free, and the result is the second slot with P.
C5_Witness ==
    /\ call.fn = "findNearestAvailable"
    /\ call.selectedProvider = "P2"
    /\ call.providers = <<[id |-> "P1"], [id |-> "P2"]>>
    /\ Len(call.slots) >= 2
    /\ ProviderBusy("P2", call.slots[1], call.dayAppointments)
    /\ ~ ProviderBusy("P1", call.slots[1], call.dayAppointments)
    /\ ret.value.found
    /\ ret.value.slot = call.slots[2]
    /\ ret.value.provider = "P2"

\* C6: findNearestAvailable returns NotFound exactly when no slot of the
\* sequence has a free pairing under the requested mode, and the button then
\* shows 'No available slots' and changes nothing.
C6_NotFoundIffNoFreePairing ==
    call.fn = "findNearestAvailable" =>
        LET free == IF call.selectedProvider \in {All, ""}
                    THEN FreeSlotsAny(call.slots, call.providers, call.dayAppointments)
                    ELSE FreeSlotsOf(call.selectedProvider, call.slots,
                                     call.dayAppointments)
        IN  /\ (ret.value = NotFound) <=> (free = {})
            /\ ret.value.found <=> (free # {})
            /\ (ret.click.toast = "No available slots") <=> (free = {})
            /\ free = {} =>
                 /\ ret.click.selectedTime = <<>>
                 /\ ret.click.selectedProvider = call.selectedProvider

\* C6 witness: every slot of a non-empty sequence is booked for the only
\* provider.
C6_Witness ==
    /\ call.fn = "findNearestAvailable"
    /\ call.selectedProvider = All
    /\ call.providers = <<[id |-> "P1"]>>
    /\ Len(call.slots) >= 2
    /\ \A k \in 1..Len(call.slots) : ProviderBusy("P1", call.slots[k], call.dayAppointments)
    /\ ret.value = NotFound
    /\ ret.click.toast = "No available slots"

\* C7: the provider is free at a slot (isSlotConflictingForProvider is
\* false) exactly when no row with that provider_id overlaps the slot; with
\* no provider specified it is free at every slot, whatever the rows.
C7_ProviderFreeIffNoOverlap ==
    call.fn = "isSlotConflictingForProvider" =>
        (~ ret.value) <=>
            IF call.providerId \in {"", Undefined} THEN TRUE
            ELSE ~ ProviderBusy(call.providerId, call.slot, call.dayAppointments)

\* C7 witness: the provider is free at a slot that a row of its own only
\* touches and that a row of another provider overlaps.
C7_Witness ==
    /\ call.fn = "isSlotConflictingForProvider"
    /\ call.providerId = "P1"
    /\ \E row \in call.dayAppointments :
          row.provider_id = "P1" /\ row.ends_at[2] = call.slot.start
    /\ ProviderBusy("P2", call.slot, call.dayAppointments)
    /\ ret.value = FALSE

\* C8: isSlotTakenByAllProviders is true exactly when the provider list is
\* not empty and every provider of it has a row overlapping the slot.
C8_FullyBookedIffAllBusy ==
    call.fn = "isSlotTakenByAllProviders" =>
        ret.value <=>
            /\ Len(call.providers) > 0
            /\ \A i \in 1..Len(call.providers) :
                  ProviderBusy(call.providers[i].id, call.slot, call.dayAppointments)

\* C8 witness: two providers, each with a row overlapping the slot.
C8_Witness ==
    /\ call.fn = "isSlotTakenByAllProviders"
    /\ call.providers = <<[id |-> "P1"], [id |-> "P2"]>>
    /\ Cardinality(call.dayAppointments) = 2
    /\ ret.value = TRUE

\* C9: when isSlotTakenByAllProviders holds of a slot, no provider of the
\* list is free at it: isSlotConflictingForProvider holds for each.
C9_FullyBookedMeansNoProviderFree ==
    (call.fn = "isSlotTakenByAllProviders" /\ ret.value) =>
        \A i \in 1..Len(call.providers) :
            isSlotConflictingForProvider(call.slot, call.providers[i].id,
                                         call.dayAppointments)

\* C9 witness: a fully booked slot, both providers of the list in conflict.
C9_Witness ==
    /\ call.fn = "isSlotTakenByAllProviders"
    /\ call.providers = <<[id |-> "P2"], [id |-> "P1"]>>
    /\ ret.value = TRUE
    /\ \A i \in 1..2 :
          isSlotConflictingForProvider(call.slot, call.providers[i].id,
                                       call.dayAppointments)

\* C10: overlaps(a, b) is true exactly when a.start < b.end and
\* a.end > b.start; intervals that only touch do not overlap.
C10_OverlapsHalfOpen ==
    call.fn = "overlaps" =>
        /\ ret.value <=> (call.aStart < call.bEnd /\ call.aEnd > call.bStart)
        /\ call.aEnd = call.bStart => ~ ret.value
        /\ call.bEnd = call.aStart => ~ ret.value

\* C10 witness: a ends exactly when b starts, and they do not overlap.
C10_Witness ==
    /\ call.fn = "overlaps"
    /\ call.aStart < call.aEnd
    /\ call.aEnd = call.bStart
    /\ call.bStart < call.bEnd
    /\ ret.value = FALSE

\* C11: overlaps is symmetric: overlaps(A, B) equals overlaps(B, A) for all
\* intervals A and B, well-formed or not.
C11_OverlapsSymmetric ==
    call.fn = "overlaps" => ret.value = ret.swapped

\* C11 witness: two different intervals that overlap, in either order.
C11_Witness ==
    /\ call.fn = "overlaps"
    /\ call.aStart < call.bStart
    /\ call.bStart < call.aEnd
    /\ call.aEnd < call.bEnd
    /\ ret.value = TRUE
    /\ ret.swapped = TRUE

\* C12: normalize(start, end, m) is {start, start + m} when end <= start and
\* {start, end} otherwise, so its end is after its start; the event of every
\* appointment is the normalization, with m = 30 minutes, of its start (now
\* when it has none) and its end (start + 30 minutes when it has none).
C12_NormalizedIntervalPositive ==
    /\ call.fn = "normalize" =>
          /\ ret.value.start = call.start
          /\ ret.value.end = IF call.end <= call.start
                             THEN call.start + call.minDurationMinutes
                             ELSE call.end
          /\ ret.value.end > ret.value.start
    /\ call.fn = "eventInterval" =>
          LET start == IF call.starts_at = NullTimestamp THEN call.now
                       ELSE call.starts_at[2]
              end == IF call.ends_at = NullTimestamp THEN start + 30
                     ELSE call.ends_at[2]
          IN  /\ ret.value.start = start
              /\ ret.value.end = IF end <= start THEN start + 30 ELSE end
              /\ ret.value.end > ret.value.start

\* C12 witness: an appointment that ends when it starts becomes an event of
\* 30 minutes.
C12_Witness ==
    /\ call.fn = "eventInterval"
    /\ call.starts_at # NullTimestamp
    /\ call.ends_at = call.starts_at
    /\ ret.value.end = ret.value.start + 30

\* C13: every draft passed to the create call starts at the selected date at
\* the selected HH:MM and ends strictly later, exactly 30 minutes later: the
\* handler takes no duration, so none but the default can reach the draft.
C13_DraftIntervalThirtyMinutes ==
    [][\A o \in Operators :
        CreateIssued(o) =>
            LET draft == mutation'[o].variables
            IN  /\ draft.starts_at =
                      <<"string", selectedDate[o] + MinuteOfDay(selectedTime[o])>>
                /\ draft.ends_at[2] > draft.starts_at[2]
                /\ draft.ends_at[2] - draft.starts_at[2] = 30
    ]_vars

\* C13 witness: a create call in flight for the slot at 09:30.
C13_Witness ==
    \E o \in Operators :
        /\ mutation[o].isPending
        /\ mutation[o].variables.starts_at[2] % DayMinutes = 570
        /\ mutation[o].variables.ends_at[2] % DayMinutes = 600

\* C14: the draft carries provider_id only when a specific provider is
\* selected and room_id only when a room is selected; with 'all' (or nothing)
\* selected provider_id is absent, and 'all' is never sent as a provider_id,
\* whatever selections came before.
C14_DraftOptionalFields ==
    [][\A o \in Operators :
        CreateIssued(o) =>
            LET draft == mutation'[o].variables
            IN  /\ draft.provider_id # All
                /\ draft.provider_id =
                      IF selectedProvider[o] \in {All, ""} THEN Undefined
                      ELSE selectedProvider[o]
                /\ draft.provider_id # Undefined =>
                      \E i \in 1..Len(providers) : providers[i].id = draft.provider_id
                /\ draft.room_id =
                      IF selectedRoom[o] = "" THEN Undefined ELSE selectedRoom[o]
                /\ draft.patient_id = patient[o].id
    ]_vars

\* C14 witness: a create call in flight without provider_id and with a
\* room_id, issued with 'all' selected after a provider had been booked.
C14_Witness ==
    \E o \in Operators :
        /\ mutation[o].isPending
        /\ mutation[o].variables.provider_id = Undefined
        /\ mutation[o].variables.room_id \in RoomIds
        /\ selectedProvider[o] = All
        /\ \E row \in BagToSet(table) : row.provider_id \in ProviderIds

\* C15: generateSlots returns a finite sequence of slots in strictly
\* ascending order, consecutive starts granularityMinutes apart, every slot
\* inside the operating window; 09:00-17:00 at 30 minutes gives 16 slots.
C15_GenerateSlotsOrderedInWindow ==
    call.fn = "generateSlots" =>
        LET slots == ret.value
            dayStart == call.date - (call.date % DayMinutes)
        IN  /\ \A k \in 1..(Len(slots) - 1) :
                  /\ slots[k].start < slots[k + 1].start
                  /\ slots[k + 1].start - slots[k].start = call.granularityMinutes
            /\ \A k \in 1..Len(slots) :
                  /\ slots[k].start >= dayStart + call.open
                  /\ slots[k].start < slots[k].end
                  /\ slots[k].end <= dayStart + call.close
            /\ (call.open = 540 /\ call.close = 1020 /\ call.granularityMinutes = 30)
                  => Len(slots) = 16

\* C15 witness: the 16 slots of 09:00-17:00 at 30 minutes.
C15_Witness ==
    /\ call.fn = "generateSlots"
    /\ call.open = 540
    /\ call.close = 1020
    /\ call.granularityMinutes = 30
    /\ Len(ret.value) = 16
    /\ ret.value[16].end % DayMinutes = 1020

\* C16: whatever the slot granularity, a slot rendered enabled for the
\* selected provider P passes the submit-time conflict check against the same
\* snapshot: no row of P overlaps the 30 minutes from the slot's start.
C16_EnabledSlotPassesSubmit ==
    (call.fn = "slotButtonThenCreate" /\ ~ ret.disabled) =>
        /\ ret.outcome = "create"
        /\ ~ \E row \in call.dayAppointments :
                /\ row.provider_id = call.selectedProvider
                /\ RowOverlaps(row, call.slot.start, call.slot.start + 30)

\* C17: in any-provider mode, for every provider list (the empty one
\* included) and every snapshot, findNearestAvailable returns NotFound exactly
\* when every slot is rendered fully booked; when some slot is enabled,
\* Nearest Available finds a slot.
C17_NearestAgreesWithDisplay ==
    (call.fn = "findNearestAvailable" /\ call.selectedProvider \in {All, ""}) =>
        /\ (ret.value = NotFound) <=>
              \A k \in 1..Len(call.slots) :
                  isSlotTakenByAllProviders(call.slots[k], call.providers,
                                            call.dayAppointments)
        /\ (\E k \in 1..Len(call.slots) : ~ ret.disabled[k]) => ret.value.found

\* C18: a click on Nearest Available issues no create call and leaves the
\* selected date and room alone; when a slot is found the selected time
\* becomes that slot's start and the selected provider changes only from
\* 'all' (or nothing), to the found provider; when none is found the selected
\* time and provider stay as they are.
C18_NearestAvailableFrame ==
    [][\A o \in Operators :
        NearestAvailable(o) =>
            LET anyMode == selectedProvider[o] \in {All, ""}
                free == IF anyMode
                        THEN FreeSlotsAny(slotsOf(o), providers, dayAppointments[o])
                        ELSE FreeSlotsOf(selectedProvider[o], slotsOf(o),
                                         dayAppointments[o])
            IN  /\ mutation' = mutation
                /\ table' = table
                /\ notified' = <<>>
                /\ selectedDate' = selectedDate
                /\ selectedRoom' = selectedRoom
                /\ free # {} =>
                      LET slot == slotsOf(o)[MinOf(free)]
                      IN  /\ selectedTime'[o] # <<>>
                          /\ selectedDate[o] + MinuteOfDay(selectedTime'[o]) = slot.start
                          /\ ~ anyMode => selectedProvider'[o] = selectedProvider[o]
                          /\ anyMode =>
                                selectedProvider'[o] =
                                    providers[MinOf({i \in 1..Len(providers) :
                                        ~ ProviderBusy(providers[i].id, slot,
                                                       dayAppointments[o])})].id
                          /\ toast' = NoToast
                /\ free = {} =>
                      /\ selectedTime'[o] = selectedTime[o]
                      /\ selectedProvider'[o] = selectedProvider[o]
                      /\ toast' = ToastOf(o, "No available slots")
    ]_vars

\* C18 witness: Nearest Available found nothing and said so; the time
\* selected before the click is still selected and no create call is pending.
C18_Witness ==
    \E o \in Operators :
        /\ toast = ToastOf(o, "No available slots")
        /\ selectedTime[o] # <<>>
        /\ selectedRoom[o] \in RoomIds
        /\ ~ mutation[o].isPending

\* C19: on an unchanged snapshot a second click on Nearest Available right
\* after one that found a slot selects the same time and the same provider.
C19_NearestAvailableIdempotent ==
    (call.fn = "findNearestAvailable" /\ ret.value.found) =>
        /\ ret.again.selectedTime = ret.click.selectedTime
        /\ ret.again.selectedProvider = ret.click.selectedProvider
        /\ ret.again.toast = ""

\* C19 witness: in any-provider mode the first click pinned the second
\* provider of the list (the first is busy at the earliest slot, the second
\* at the next one); the second click selected the same time and provider.
C19_Witness ==
    /\ call.fn = "findNearestAvailable"
    /\ call.selectedProvider = All
    /\ Len(call.providers) = 2
    /\ Len(call.slots) >= 2
    /\ ProviderBusy(call.providers[1].id, call.slots[1], call.dayAppointments)
    /\ ProviderBusy(call.providers[2].id, call.slots[2], call.dayAppointments)
    /\ ret.click.selectedProvider = call.providers[2].id
    /\ ret.again = ret.click

\* A step in which operator o's create call settles, and whether it stored
\* the draft's row.
CreateSettled(o) == mutation[o].isPending /\ ~ mutation'[o].isPending
CreateSucceeded(o) ==
    /\ CreateSettled(o)
    /\ table' = table (+) SetToBag({[provider_id |-> mutation[o].variables.provider_id,
                                     starts_at |-> mutation[o].variables.starts_at,
                                     ends_at |-> mutation[o].variables.ends_at]})

\* C20: onAppointmentCreated is invoked once by the step in which a create
\* call completes successfully and by no other step; a validation failure, a
\* provider conflict and a rejected create call each show a message, invoke
\* nothing, leave date, time, provider and room as they are and issue no
\* further create call.
C20_NotifiedOnlyOnSuccess ==
    [][\A o \in Operators :
        /\ (notified' = <<o>>) <=> CreateSucceeded(o)
        /\ Len(notified') <= 1
        /\ CreateSucceeded(o) => toast' = ToastOf(o, "Appointment created")
        /\ (CreateSettled(o) /\ ~ CreateSucceeded(o)) =>
              /\ toast' = ToastOf(o, "Error")
              /\ table' = table
        /\ (HandlerRan(o) /\ ~ CreateIssued(o)) =>
              toast' \in {ToastOf(o, "Missing information"),
                          ToastOf(o, "Provider conflict")}
        /\ toast' \in {ToastOf(o, "Missing information"),
                        ToastOf(o, "Provider conflict"), ToastOf(o, "Error")} =>
              /\ notified' = <<>>
              /\ SelectionsUnchanged(o)
              /\ table' = table
              /\ ~ mutation'[o].isPending
    ]_vars

\* C20 witness: a create call completed, its row is stored, and
\* onAppointmentCreated was invoked once by that step.
C20_Witness ==
    \E o \in Operators :
        /\ notified = <<o>>
        /\ toast = ToastOf(o, "Appointment created")
        /\ ~ mutation[o].isPending
        /\ BagCardinality(table) >= 1

\* C21: a modal has at most one create call in flight: while one is pending
\* the Create Appointment button does nothing, so no second call is issued
\* (against the snapshot not yet refreshed) and handleCreateAppointment does
\* not run; the table grows only by the one row of a call that succeeded.
C21_OneCreateInFlight ==
    [][\A o \in Operators :
        /\ ClickCreate(o) => ~ mutation[o].isPending
        /\ mutation[o].isPending =>
              /\ ~ HandlerRan(o)
              /\ mutation'[o].isPending => mutation'[o] = mutation[o]
        /\ CreateSucceeded(o) =>
              /\ BagCardinality(table') = BagCardinality(table) + 1
              /\ ~ mutation'[o].isPending
        /\ table' # table => \E p \in Operators : CreateSucceeded(p)
    ]_vars

\* C21 witness: a create call is in flight while the operator, whose
\* snapshot lacks a stored row, has selected another time than the call's:
\* date and time are selected and only the pending call disables the button.
C21_Witness ==
    \E o \in Operators :
        /\ mutation[o].isPending
        /\ selectedDate[o] # NoDate
        /\ selectedTime[o] # <<>>
        /\ patient[o] # NoPatient
        /\ mutation[o].variables.starts_at[2]
              # selectedDate[o] + MinuteOfDay(selectedTime[o])
        /\ \E row \in BagToSet(table) : row \notin dayAppointments[o]

====
